---- MODULE Spec2Model ----
(***************************************************************************)
(* go-metrics-influxdb: the looping reporter (InfluxDB / WithTags ->       *)
(* makeClient -> run -> send) and the one-shot sender (Reporter.Send) of   *)
(* influxdb.go.                                                            *)
(*                                                                         *)
(* Strings that the code parses (the address, the start_time tag) are      *)
(* sequences of one-character strings.  The InfluxDB client library and    *)
(* the metrics registry are outside the repository: every call into the    *)
(* client (NewHTTPClient, NewUDPClient, Ping, Write) returns an outcome    *)
(* chosen by the environment, and a constructor that fails returns the     *)
(* nil client next to its error, as the library does.  Snapshot            *)
(* statistics are kept as distinct terms of (sample, statistic).  Point    *)
(* timestamps (time.Now()) are not modelled.                               *)
(***************************************************************************)
EXTENDS Integers, Sequences, FiniteSets, TLC

VARIABLES
    rep,            \* the reporter struct: addr, database, username, password, tags, client
    reg,            \* the metrics registry read by the looping reporter
    status,         \* where the WithTags goroutine is: start, running, returned, panicked
    active,         \* the select cases of run() whose body is executing
    intervalTick,   \* a tick is buffered in intervalTicker
    pingTick,       \* a tick is buffered in pingTicker
    initErr,        \* the error of the makeClient call of WithTags
    made,           \* number of clients the library has constructed
    pinged,         \* the errors of Ping and makeClient in the last ping case of run()
    writeFailed,    \* some Write of an earlier or the last flush returned an error
    calls,          \* the client-library calls made by the last step
    item,           \* the ReporterItem given to Reporter.Send: Reg, Tags
    measureName,    \* the measureName argument of Reporter.Send
    sender,         \* the Reporter struct: database, client
    ret,            \* what the last Reporter.Send returned
    prevRet,        \* what the Reporter.Send before the last returned
    tagsAtCall,     \* item.Tags when the last Reporter.Send was entered
    nSends          \* number of Reporter.Send calls made

vars == <<rep, reg, status, active, intervalTick, pingTick, initErr, made,
          pinged, writeFailed, calls, item, measureName, sender, ret,
          prevRet, tagsAtCall, nSends>>

loopVars == <<rep, reg, status, active, intervalTick, pingTick, initErr, made,
              pinged, writeFailed>>
sendVars == <<item, measureName, sender, ret, prevRet, tagsAtCall, nSends>>

----------------------------------------------------------------------------
(* Bounds *)

MaxMetrics == 2     \* names the registry can hold
MaxClients == 2     \* clients the library constructs in one behaviour
MaxLen == 3         \* length of the start_time tag value
MaxSends == 2       \* Reporter.Send calls on one ReporterItem

----------------------------------------------------------------------------
(* Errors *)

NoErr == "nil"
ErrMissingScheme == "missing protocol scheme"
ErrInvalidScheme == "invalid scheme"
ErrConnect == "client constructor error"
ErrPing == "ping error"
ErrWrite == "write error"
ErrSyntax == "strconv.Atoi: invalid syntax"
ErrNoPoint == "no point to send"
NotCalled == "not called"

----------------------------------------------------------------------------
(* net/url: the part of url.Parse that makeClient depends on *)

LowerLetters == <<"a","b","c","d","e","f","g","h","i","j","k","l","m",
                  "n","o","p","q","r","s","t","u","v","w","x","y","z">>
UpperLetters == <<"A","B","C","D","E","F","G","H","I","J","K","L","M",
                  "N","O","P","Q","R","S","T","U","V","W","X","Y","Z">>
Digits == <<"0","1","2","3","4","5","6","7","8","9">>

Range(s) == {s[i] : i \in DOMAIN s}
IndexOf(s, c) == CHOOSE i \in DOMAIN s : s[i] = c

IsLetter(c) == c \in Range(LowerLetters) \cup Range(UpperLetters)
IsSchemeMark(c) == c \in Range(Digits) \cup {"+", "-", "."}

ToLowerChar(c) == IF c \in Range(UpperLetters)
                  THEN LowerLetters[IndexOf(UpperLetters, c)] ELSE c
ToLower(s) == [i \in DOMAIN s |-> ToLowerChar(s[i])]

RECURSIVE getSchemeFrom(_, _)
getSchemeFrom(rawURL, i) ==
    IF i > Len(rawURL) THEN [scheme |-> <<>>, path |-> rawURL, err |-> NoErr]
    ELSE LET c == rawURL[i] IN
         IF IsLetter(c) THEN getSchemeFrom(rawURL, i + 1)
         ELSE IF IsSchemeMark(c)
              THEN IF i = 1
                   THEN [scheme |-> <<>>, path |-> rawURL, err |-> NoErr]
                   ELSE getSchemeFrom(rawURL, i + 1)
         ELSE IF c = ":"
              THEN IF i = 1
                   THEN [scheme |-> <<>>, path |-> <<>>, err |-> ErrMissingScheme]
                   ELSE [scheme |-> SubSeq(rawURL, 1, i - 1),
                         path |-> SubSeq(rawURL, i + 1, Len(rawURL)),
                         err |-> NoErr]
         ELSE [scheme |-> <<>>, path |-> rawURL, err |-> NoErr]

getScheme(rawURL) == getSchemeFrom(rawURL, 1)

RECURSIVE UpToSlash(_)
UpToSlash(s) == IF s = <<>> \/ Head(s) = "/" THEN <<>>
                ELSE <<Head(s)>> \o UpToSlash(Tail(s))

HostOf(rest) == IF Len(rest) >= 2 /\ rest[1] = "/" /\ rest[2] = "/"
                THEN UpToSlash(SubSeq(rest, 3, Len(rest)))
                ELSE <<>>

UrlParse(rawURL) ==
    LET g == getScheme(rawURL) IN
    IF g.err # NoErr
    THEN [Scheme |-> <<>>, Host |-> <<>>, err |-> g.err]
    ELSE [Scheme |-> ToLower(g.scheme), Host |-> HostOf(g.path), err |-> NoErr]

SchemeHTTP == <<"h","t","t","p">>
(* SchemeUDP with another case label *)
SchemeUDPOther == <<"f","t","p">>
SchemeUDP == <<"u","d","p">>

----------------------------------------------------------------------------
(* The reporter and its client *)

NoClient == [variant |-> "nil"]
PayloadSize == 1024

NewHTTPClient(conf, ok, id) ==
    IF ok THEN [client |-> [variant |-> "http", Addr |-> conf.Addr,
                            Username |-> conf.Username,
                            Password |-> conf.Password, id |-> id],
                err |-> NoErr]
    ELSE [client |-> NoClient, err |-> ErrConnect]

NewUDPClient(conf, ok, id) ==
    IF ok THEN [client |-> [variant |-> "udp", Addr |-> conf.Addr,
                            PayloadSize |-> conf.PayloadSize, id |-> id],
                err |-> NoErr]
    ELSE [client |-> NoClient, err |-> ErrConnect]

(* makeClient on reporter r; ok is the outcome of the library constructor  *)
(* and id the identity of the client it would construct.  The result is    *)
(* the reporter afterwards, the returned error and the library calls made. *)
makeClient(r, ok, id) ==
    LET url == UrlParse(r.addr) IN
    IF url.err # NoErr
    THEN [rep |-> r, err |-> url.err, calls |-> <<>>]
    ELSE IF url.Scheme = SchemeHTTP
    THEN LET conf == [Addr |-> r.addr, Username |-> r.username,
                      Password |-> r.password]
             res == NewHTTPClient(conf, ok, id)
         IN [rep |-> [r EXCEPT !.client = res.client], err |-> res.err,
             calls |-> <<[op |-> "NewHTTPClient", client |-> res.client,
                          arg |-> conf, err |-> res.err]>>]
    ELSE IF url.Scheme = SchemeUDP
    THEN LET conf == [Addr |-> url.Host, PayloadSize |-> PayloadSize]
             res == NewUDPClient(conf, ok, id)
         IN [rep |-> [r EXCEPT !.client = res.client], err |-> res.err,
             calls |-> <<[op |-> "NewUDPClient", client |-> res.client,
                          arg |-> conf, err |-> res.err]>>]
    ELSE [rep |-> r, err |-> ErrInvalidScheme, calls |-> <<>>]

----------------------------------------------------------------------------
(* The metrics registry and its snapshots *)

NamePool == <<"cpu", "requests", "latency", "errors">>
Names == {<<NamePool[i]>> : i \in 1..MaxMetrics}

SupportedKinds == {"Counter", "Gauge", "GaugeFloat64", "Histogram", "Meter", "Timer"}
Kinds == SupportedKinds \cup {"Healthcheck"}

(* The code never branches on a metric's value, so the metric registered   *)
(* under a name keeps one value (its sample), distinct from the others'.   *)
Sample(n) == CHOOSE i \in DOMAIN NamePool : <<NamePool[i]>> = n

NoMetric == [kind |-> "none"]
Metrics(n) == [kind : Kinds, v : {Sample(n)}]
Registries == {r \in [Names -> UNION {Metrics(n) : n \in Names} \cup {NoMetric}] :
                 \A n \in Names : r[n] \in Metrics(n) \cup {NoMetric}}
EmptyRegistry == [n \in Names |-> NoMetric]

Registered(registry) == {n \in DOMAIN registry : registry[n] # NoMetric}

(* Registry.Each visits the entries in an unspecified order *)
EachOrders(registry) ==
    LET S == Registered(registry) IN
    {o \in [1..Cardinality(S) -> S] : \A i, j \in DOMAIN o : o[i] = o[j] => i = j}

(* A statistic of the snapshot of sample v, one distinct term per statistic *)
Term(v, code) == v * 100000 + code
Count(v) == Term(v, 1)
Max(v) == Term(v, 2)
Mean(v) == Term(v, 3)
Min(v) == Term(v, 4)
StdDev(v) == Term(v, 5)
Variance(v) == Term(v, 6)
Rate1(v) == Term(v, 7)
Rate5(v) == Term(v, 8)
Rate15(v) == Term(v, 9)
RateMean(v) == Term(v, 10)
Percentile(v, q) == Term(v, 10000 + q)
Percentiles(v, qs) == [i \in DOMAIN qs |-> Percentile(v, qs[i])]

(* CutPoints with two cut points in each other's place *)
CutPointsSwapped == <<5000, 7500, 9900, 9500, 9990, 9999>>

(* The cut points 0.5, 0.75, 0.95, 0.99, 0.999, 0.9999 in units of 1/10000 *)
CutPoints == <<5000, 7500, 9500, 9900, 9990, 9999>>

----------------------------------------------------------------------------
(* Points and the encoder of reporter.send *)

NewPoint(name, tags, fields) == [name |-> name, tags |-> tags, fields |-> fields]

(* encode with a point for every kind, as by a default case *)
encodeAnyKind(name, m, tags) ==
    <<NewPoint(name \o <<".gauge">>, tags, [value |-> m.v])>>

(* The type switch of reporter.send on one registry entry: the points it adds *)
encode(name, m, tags) ==
    IF m.kind = "Counter"
    THEN <<NewPoint(name \o <<".count">>, tags, [value |-> m.v])>>
    ELSE IF m.kind = "Gauge"
    THEN <<NewPoint(name \o <<".gauge">>, tags, [value |-> m.v])>>
    ELSE IF m.kind = "GaugeFloat64"
    THEN <<NewPoint(name \o <<".gauge">>, tags, [value |-> m.v])>>
    ELSE IF m.kind = "Histogram"
    THEN LET ps == Percentiles(m.v, CutPoints) IN
         <<NewPoint(name \o <<".histogram">>, tags,
                    [count |-> Count(m.v), max |-> Max(m.v), mean |-> Mean(m.v),
                     min |-> Min(m.v), stddev |-> StdDev(m.v),
                     variance |-> Variance(m.v),
                     p50 |-> ps[1], p75 |-> ps[2], p95 |-> ps[3],
                     p99 |-> ps[4], p999 |-> ps[5], p9999 |-> ps[6]])>>
    ELSE IF m.kind = "Meter"
    THEN <<NewPoint(name \o <<".meter">>, tags,
                    [count |-> Count(m.v), m1 |-> Rate1(m.v), m5 |-> Rate5(m.v),
                     m15 |-> Rate15(m.v), mean |-> RateMean(m.v)])>>
    ELSE IF m.kind = "Timer"
    THEN LET ps == Percentiles(m.v, CutPoints) IN
         <<NewPoint(name \o <<".timer">>, tags,
                    [count |-> Count(m.v), max |-> Max(m.v), mean |-> Mean(m.v),
                     min |-> Min(m.v), stddev |-> StdDev(m.v),
                     variance |-> Variance(m.v),
                     p50 |-> ps[1], p75 |-> ps[2], p95 |-> ps[3],
                     p99 |-> ps[4], p999 |-> ps[5], p9999 |-> ps[6],
                     m1 |-> Rate1(m.v), m5 |-> Rate5(m.v), m15 |-> Rate15(m.v),
                     meanrate |-> RateMean(m.v)])>>
    ELSE <<>>

(* The batch after r.reg.Each has visited the entries in the given order *)
RECURSIVE walk(_, _, _, _)
walk(registry, order, tags, i) ==
    IF i > Len(order) THEN <<>>
    ELSE encode(order[i], registry[order[i]], tags)
         \o walk(registry, order, tags, i + 1)

(* r.send(): the batch is built and handed to r.client.Write, whose error  *)
(* is returned.  Calling Write on the nil client panics.                   *)
send(r, registry, order, writeOk) ==
    LET bp == walk(registry, order, r.tags, 1) IN
    IF r.client = NoClient
    THEN [panic |-> TRUE, err |-> NoErr, calls |-> <<>>]
    ELSE LET err == IF writeOk THEN NoErr ELSE ErrWrite IN
         [panic |-> FALSE, err |-> err,
          calls |-> <<[op |-> "Write", client |-> r.client, arg |-> bp,
                       err |-> err]>>]

(* afterSend with the loop left on a failed send *)
afterSendStops(err) == IF err # NoErr THEN "returned" ELSE "running"

(* The interval case of run(): the error of send is logged, the loop goes on *)
afterSend(err) == "running"

(* pingCase without the makeClient call of the failure branch *)
pingCaseNoReconnect(r, pingOk, mkOk, id) ==
    IF r.client = NoClient
    THEN [panic |-> TRUE, rep |-> r, ping |-> NotCalled, make |-> NotCalled,
          calls |-> <<>>]
    ELSE [panic |-> FALSE, rep |-> r,
          ping |-> IF pingOk THEN NoErr ELSE ErrPing, make |-> NotCalled,
          calls |-> <<[op |-> "Ping", client |-> r.client, arg |-> 1,
                       err |-> IF pingOk THEN NoErr ELSE ErrPing]>>]

(* The ping case of run(): Ping, and makeClient when Ping fails.  Calling  *)
(* Ping on the nil client panics.                                          *)
pingCase(r, pingOk, mkOk, id) ==
    IF r.client = NoClient
    THEN [panic |-> TRUE, rep |-> r, ping |-> NotCalled, make |-> NotCalled,
          calls |-> <<>>]
    ELSE LET ping == [op |-> "Ping", client |-> r.client, arg |-> 1,
                      err |-> IF pingOk THEN NoErr ELSE ErrPing]
         IN IF pingOk
            THEN [panic |-> FALSE, rep |-> r, ping |-> NoErr,
                  make |-> NotCalled, calls |-> <<ping>>]
            ELSE LET mk == makeClient(r, mkOk, id) IN
                 [panic |-> FALSE, rep |-> mk.rep, ping |-> ErrPing,
                  make |-> mk.err, calls |-> <<ping>> \o mk.calls]

(* selectReady with each case body started without waiting for the others *)
selectReadyAlways(a) == TRUE

(* The for/select of run() takes a case only when no case body is running *)
selectReady(a) == a = {}

----------------------------------------------------------------------------
(* strconv.Atoi *)

DigitVal(c) == IndexOf(Digits, c) - 1
AllDigits(s) == \A i \in DOMAIN s : s[i] \in Range(Digits)

RECURSIVE Decimal(_, _)
Decimal(s, n) == IF s = <<>> THEN n
                 ELSE Decimal(Tail(s), n * 10 + DigitVal(Head(s)))

(* Atoi on strings shorter than 19 characters (its fast path, which cannot *)
(* overflow) and on the empty string; MaxLen keeps the inputs that short.  *)
Atoi(s) ==
    IF s = <<>> THEN [n |-> 0, err |-> ErrSyntax]
    ELSE LET signed == s[1] \in {"-", "+"}
             body == IF signed THEN Tail(s) ELSE s
         IN IF body = <<>> \/ ~AllDigits(body) THEN [n |-> 0, err |-> ErrSyntax]
            ELSE [n |-> IF s[1] = "-" THEN 0 - Decimal(body, 0)
                        ELSE Decimal(body, 0),
                  err |-> NoErr]

----------------------------------------------------------------------------
(* The one-shot sender, Reporter.Send *)

(* m[k] of a Go map: the zero value "" when k is absent *)
TagGet(tags, k) == IF k \in DOMAIN tags THEN tags[k] ELSE <<>>
(* delete that removes nothing *)
TagDeleteNone(tags, k) == tags

(* delete(m, k) *)
TagDelete(tags, k) == [x \in DOMAIN tags \ {k} |-> tags[x]]

(* atoiFailed with the error of Atoi dropped *)
atoiFailedNever(a) == FALSE

(* if err != nil after strconv.Atoi *)
atoiFailed(a) == a.err # NoErr

(* sendFields without the promoted tag *)
sendFieldsValueOnly(v, st) == [value |-> v]

(* the fields of the point of one FloatGauge *)
sendFields(v, st) == [value |-> v, start_time |-> st]

(* encodeGauge with a case for the integer Gauge as well *)
encodeGaugeAny(m, measure, tags, st) ==
    IF m.kind \in {"GaugeFloat64", "Gauge"}
    THEN <<NewPoint(measure \o <<".gauge">>, tags, [value |-> m.v, start_time |-> st])>>
    ELSE <<>>

(* The type switch of Reporter.Send on one registry entry *)
encodeGauge(m, measure, tags, st) ==
    IF m.kind = "GaugeFloat64"
    THEN <<NewPoint(measure \o <<".gauge">>, tags, sendFields(m.v, st))>>
    ELSE <<>>

RECURSIVE walkGauges(_, _, _, _, _, _)
walkGauges(registry, order, measure, tags, st, i) ==
    IF i > Len(order) THEN <<>>
    ELSE encodeGauge(registry[order[i]], measure, tags, st)
         \o walkGauges(registry, order, measure, tags, st, i + 1)

(* hasPoints with >= for > *)
hasPointsOrNone(bp) == Len(bp) >= 0

(* if len(bp.Points()) > 0 *)
hasPoints(bp) == Len(bp) > 0

(* Reporter.Send(item, measureName): the item afterwards, the returned     *)
(* error and the library calls made                                        *)
ReporterSend(r, it, measure, order, writeOk) ==
    LET a == Atoi(TagGet(it.Tags, "start_time")) IN
    IF atoiFailed(a)
    THEN [item |-> it, err |-> a.err, calls |-> <<>>]
    ELSE LET it2 == [it EXCEPT !.Tags = TagDelete(it.Tags, "start_time")]
             bp == walkGauges(it2.Reg, order, measure, it2.Tags, a.n, 1)
         IN IF hasPoints(bp)
            THEN LET err == IF writeOk THEN NoErr ELSE ErrWrite IN
                 [item |-> it2, err |-> err,
                  calls |-> <<[op |-> "Write", client |-> r.client,
                               arg |-> bp, err |-> err]>>]
            ELSE [item |-> it2, err |-> ErrNoPoint, calls |-> <<>>]

----------------------------------------------------------------------------
(* Inputs *)

EmptyTags == [k \in {} |-> <<>>]
HostTags == [k \in {"host"} |-> <<"a">>]

FullSetup == [database |-> "mydb", username |-> "myuser",
              password |-> "mypassword", tags |-> HostTags]
BareSetup == [database |-> "", username |-> "", password |-> "", tags |-> EmptyTags]

(* The arguments of WithTags: the address, and database, username,         *)
(* password and tags as the README's callers pass them                     *)
Configs == {
    [addr |-> <<"h","t","t","p",":","/","/","l",":","8">>, setup |-> FullSetup],
    [addr |-> <<"H","T","T","P",":","/","/","l",":","8">>, setup |-> BareSetup],
    [addr |-> <<"u","d","p",":","/","/","l",":","9","/">>, setup |-> BareSetup],
    [addr |-> <<"f","t","p",":","/","/","l">>, setup |-> FullSetup],
    [addr |-> <<"h","t","t","p","s",":","/","/","l">>, setup |-> BareSetup],
    [addr |-> <<"l",":","8">>, setup |-> FullSetup],
    [addr |-> <<":","8">>, setup |-> BareSetup],
    [addr |-> <<>>, setup |-> BareSetup] }

NoPing == [ping |-> NotCalled, make |-> NotCalled]
NoItem == [Reg |-> EmptyRegistry, Tags |-> EmptyTags]
NoSender == [database |-> "", client |-> NoClient]

----------------------------------------------------------------------------
(* The looping reporter *)

Init ==
    /\ \E c \in Configs :
          rep = [addr |-> c.addr, database |-> c.setup.database,
                 username |-> c.setup.username, password |-> c.setup.password,
                 tags |-> c.setup.tags, client |-> NoClient]
    /\ reg \in Registries
    /\ status = "start"
    /\ active = {}
    /\ intervalTick = FALSE
    /\ pingTick = FALSE
    /\ initErr = NotCalled
    /\ made = 0
    /\ pinged = NoPing
    /\ writeFailed = FALSE
    /\ calls = <<>>
    /\ item = NoItem
    /\ measureName = <<>>
    /\ sender = NoSender
    /\ ret = NotCalled
    /\ prevRet = NotCalled
    /\ tagsAtCall = EmptyTags
    /\ nSends = 0

Constructed(cs) == Cardinality({i \in DOMAIN cs :
                        /\ cs[i].op \in {"NewHTTPClient", "NewUDPClient"}
                        /\ cs[i].err = NoErr})

(* afterMakeClient without the early return *)
afterMakeClientRuns(err) == "running"

(* WithTags: makeClient, then run() unless makeClient failed *)
afterMakeClient(err) == IF err # NoErr THEN "returned" ELSE "running"

WithTags ==
    /\ status = "start"
    /\ \E ok \in BOOLEAN :
          LET mk == makeClient(rep, ok, made + 1) IN
          /\ rep' = mk.rep
          /\ initErr' = mk.err
          /\ status' = afterMakeClient(mk.err)
          /\ made' = made + Constructed(mk.calls)
          /\ calls' = mk.calls
    /\ UNCHANGED <<reg, active, intervalTick, pingTick, pinged,
                 writeFailed>>
    /\ UNCHANGED sendVars

(* time.Tick: the runtime puts a tick in the one-slot channel *)
IntervalTickerFires ==
    /\ status = "running"
    /\ ~intervalTick
    /\ intervalTick' = TRUE
    /\ calls' = <<>>
    /\ UNCHANGED <<rep, reg, status, active, pingTick, initErr, made, pinged,
                 writeFailed>>
    /\ UNCHANGED sendVars

PingTickerFires ==
    /\ status = "running"
    /\ ~pingTick
    /\ pingTick' = TRUE
    /\ calls' = <<>>
    /\ UNCHANGED <<rep, reg, status, active, intervalTick, initErr, made, pinged,
                 writeFailed>>
    /\ UNCHANGED sendVars

(* case <-intervalTicker: the select receives the tick *)
FlushTick ==
    /\ status = "running"
    /\ selectReady(active)
    /\ intervalTick
    /\ intervalTick' = FALSE
    /\ active' = active \cup {"flush"}
    /\ calls' = <<>>
    /\ UNCHANGED <<rep, reg, status, pingTick, initErr, made, pinged,
                 writeFailed>>
    /\ UNCHANGED sendVars

(* Send with the batch of a failed flush kept and sent again with the next *)
SendResending ==
    /\ status = "running"
    /\ "flush" \in active
    /\ \E order \in EachOrders(reg), writeOk \in BOOLEAN :
          LET res == send(rep, reg, order, writeOk) IN
          /\ calls' = IF writeFailed
                       THEN [i \in DOMAIN res.calls |->
                               [res.calls[i] EXCEPT !.arg = @ \o @]]
                       ELSE res.calls
          /\ writeFailed' = (writeFailed \/ res.err # NoErr)
          /\ IF res.panic
             THEN status' = "panicked" /\ active' = active
             ELSE status' = afterSend(res.err) /\ active' = active \ {"flush"}
    /\ UNCHANGED <<rep, reg, intervalTick, pingTick, initErr, made, pinged>>
    /\ UNCHANGED sendVars

(* the body of the interval case: r.send() and the log of its error *)
Send ==
    /\ status = "running"
    /\ "flush" \in active
    /\ \E order \in EachOrders(reg), writeOk \in BOOLEAN :
          LET res == send(rep, reg, order, writeOk) IN
          /\ calls' = res.calls
          /\ writeFailed' = (writeFailed \/ res.err # NoErr)
          /\ IF res.panic
             THEN status' = "panicked" /\ active' = active
             ELSE status' = afterSend(res.err) /\ active' = active \ {"flush"}
    /\ UNCHANGED <<rep, reg, intervalTick, pingTick, initErr, made, pinged>>
    /\ UNCHANGED sendVars

(* case <-pingTicker: the select receives the tick *)
PingTick ==
    /\ status = "running"
    /\ selectReady(active)
    /\ pingTick
    /\ pingTick' = FALSE
    /\ active' = active \cup {"ping"}
    /\ calls' = <<>>
    /\ UNCHANGED <<rep, reg, status, intervalTick, initErr, made, pinged,
                 writeFailed>>
    /\ UNCHANGED sendVars

(* the body of the ping case: Ping, and makeClient when it fails *)
Ping ==
    /\ status = "running"
    /\ "ping" \in active
    /\ \E pingOk \in BOOLEAN, mkOk \in BOOLEAN :
          LET res == pingCase(rep, pingOk, mkOk, made + 1) IN
          /\ made + Constructed(res.calls) <= MaxClients
          /\ rep' = res.rep
          /\ made' = made + Constructed(res.calls)
          /\ calls' = res.calls
          /\ IF res.panic
             THEN status' = "panicked" /\ active' = active /\ pinged' = pinged
             ELSE /\ status' = "running"
                  /\ active' = active \ {"ping"}
                  /\ pinged' = [ping |-> res.ping, make |-> res.make]
    /\ UNCHANGED <<reg, intervalTick, pingTick, initErr, writeFailed>>
    /\ UNCHANGED sendVars

(* the instrumented application registers, unregisters or updates a metric *)
RegistryChange ==
    /\ status = "running"
    /\ \E n \in Names : \E m \in Metrics(n) \cup {NoMetric} :
          /\ m # reg[n]
          /\ reg' = [reg EXCEPT ![n] = m]
    /\ calls' = <<>>
    /\ UNCHANGED <<rep, status, active, intervalTick, pingTick, initErr, made, pinged,
                 writeFailed>>
    /\ UNCHANGED sendVars

Next ==
    \/ WithTags
    \/ IntervalTickerFires
    \/ PingTickerFires
    \/ FlushTick
    \/ Send
    \/ PingTick
    \/ Ping
    \/ RegistryChange

Spec == Init /\ [][Next]_vars

----------------------------------------------------------------------------
(* The one-shot sender: a caller holding a Reporter and a ReporterItem *)

TagChars == {"7", "-", "x"}
TagValues == UNION {[1..n -> TagChars] : n \in 0..MaxLen}

ItemTags == {[k \in D |-> IF k = "start_time" THEN v ELSE <<"a">>] :
                D \in SUBSET {"start_time", "host"}, v \in TagValues}

(* NewReporter: the HTTP client is created once *)
NewReporter(address, database, username, password) ==
    [database |-> database,
     client |-> NewHTTPClient([Addr |-> address, Username |-> username,
                               Password |-> password], TRUE, 1).client]

InitSend ==
    /\ rep = [addr |-> <<>>, database |-> "", username |-> "", password |-> "",
              tags |-> EmptyTags, client |-> NoClient]
    /\ reg = EmptyRegistry
    /\ status = "start"
    /\ active = {}
    /\ intervalTick = FALSE
    /\ pingTick = FALSE
    /\ initErr = NotCalled
    /\ made = 0
    /\ pinged = NoPing
    /\ writeFailed = FALSE
    /\ calls = <<>>
    /\ item \in [Reg : Registries, Tags : ItemTags]
    /\ measureName = <<"table">>
    /\ sender = NewReporter(<<"h","t","t","p",":","/","/","l",":","8">>,
                            "mydb", "myuser", "mypassword")
    /\ ret = NotCalled
    /\ prevRet = NotCalled
    /\ tagsAtCall = EmptyTags
    /\ nSends = 0

SendOnce ==
    /\ nSends < MaxSends
    /\ \E order \in EachOrders(item.Reg), writeOk \in BOOLEAN :
          LET res == ReporterSend(sender, item, measureName, order, writeOk) IN
          /\ item' = res.item
          /\ ret' = res.err
          /\ prevRet' = ret
          /\ calls' = res.calls
    /\ tagsAtCall' = item.Tags
    /\ nSends' = nSends + 1
    /\ UNCHANGED <<measureName, sender>>
    /\ UNCHANGED loopVars

NextSend == SendOnce

SpecSend == InitSend /\ [][NextSend]_vars

----------------------------------------------------------------------------
(* Properties of the looping reporter (specification Spec) *)

FailedWrite(cs) == \E i \in DOMAIN cs : cs[i].op = "Write" /\ cs[i].err # NoErr
Called(cs, op) == \E i \in DOMAIN cs : cs[i].op = op
Constructors == {"NewHTTPClient", "NewUDPClient"}

(* C1: a step of the loop whose Write returns an error leaves the reporter *)
(* struct, its client included, as it was, and leaves the goroutine in     *)
(* run() back at the select with no case body running.                     *)
C1_WriteFailureKeepsLoop ==
    [][FailedWrite(calls') =>
          /\ rep' = rep
          /\ status' = "running"
          /\ active' = {}]_vars

C1_Witness ==
    /\ FailedWrite(calls)
    /\ status = "running"
    /\ active = {}
    /\ rep.client # NoClient

(* C2, as stated: a failed Ping is followed by a makeClient call, and the  *)
(* Ping of the ping case that follows a successful makeClient succeeds.    *)
C2_PingAfterReconnectSucceeds ==
    [][/\ (\E i \in DOMAIN calls' : calls'[i].op = "Ping" /\ calls'[i].err # NoErr)
            => \E j \in DOMAIN calls' : calls'[j].op \in Constructors
       /\ (/\ pinged.ping = ErrPing
           /\ pinged.make = NoErr
           /\ Called(calls', "Ping"))
            => calls'[1].err = NoErr]_vars

(* C2, amended: a failed Ping is followed, in the same ping case, by a     *)
(* makeClient call; when that call succeeds the reporter's client is the   *)
(* client just constructed, not the one pinged; and every Ping is made on  *)
(* the client the reporter holds, so the Ping after a successful           *)
(* makeClient goes to the new client.  Whether it succeeds is up to the    *)
(* destination.                                                            *)
C2_ReconnectReplacesClient ==
    [][Called(calls', "Ping") =>
          /\ calls'[1].op = "Ping"
          /\ calls'[1].client = rep.client
          /\ IF calls'[1].err = NoErr
             THEN Len(calls') = 1 /\ rep' = rep
             ELSE /\ Len(calls') = 2
                  /\ calls'[2].op \in Constructors
                  /\ pinged'.make = calls'[2].err
                  /\ calls'[2].err = NoErr =>
                        /\ rep'.client = calls'[2].client
                        /\ rep'.client # NoClient
                        /\ rep'.client.id # rep.client.id]_vars

C2_Witness ==
    /\ pinged.ping = ErrPing
    /\ pinged.make = NoErr
    /\ Len(calls) = 2
    /\ rep.client = calls[2].client
    /\ rep.client.id = 2

(* C3, as stated: once a makeClient call made after a failed Ping has      *)
(* failed too, the loop keeps running.                                     *)
C3_FailedReconnectKeepsRunning ==
    (pinged.make \notin {NotCalled, NoErr})
        => status = "running"

(* C4, as stated: no Write of the looping reporter gets a batch with zero  *)
(* points.                                                                 *)
C4_NoEmptyBatchWritten ==
    \A i \in DOMAIN calls : calls[i].op = "Write" => Len(calls[i].arg) > 0

(* C6: when the makeClient call of WithTags fails, WithTags returns: run() *)
(* is never entered, no ticker is started, no Write and no Ping is made,   *)
(* and makeClient is not called a second time.                             *)
C6_InitFailureNeverRuns ==
    (initErr \notin {NotCalled, NoErr}) =>
        /\ status = "returned"
        /\ active = {}
        /\ ~intervalTick /\ ~pingTick
        /\ pinged = NoPing
        /\ ~Called(calls, "Write") /\ ~Called(calls, "Ping")
        /\ Len(calls) <= 1
        /\ made = 0
        /\ rep.client = NoClient

C6_Witness ==
    /\ initErr = ErrConnect
    /\ status = "returned"
    /\ Len(calls) = 1

HTTPAddresses == {<<"h","t","t","p",":","/","/","l",":","8">>,
                  <<"H","T","T","P",":","/","/","l",":","8">>}
UDPAddresses == {<<"u","d","p",":","/","/","l",":","9","/">>}
OtherSchemeAddresses == {<<"f","t","p",":","/","/","l">>,
                         <<"h","t","t","p","s",":","/","/","l">>,
                         <<"l",":","8">>,
                         <<>>}

(* C7: once makeClient has run, an http address gives either the           *)
(* constructor's error or an HTTP client carrying the address, username    *)
(* and password; a udp address gives either the constructor's error or a   *)
(* UDP client on the address's host with payload size 1024, whatever the   *)
(* credentials; an address with another scheme gives "invalid scheme" and  *)
(* no client.                                                              *)
C7_SchemeSelectsClient ==
    (status # "start") =>
        /\ rep.addr \in HTTPAddresses =>
              /\ initErr \in {NoErr, ErrConnect}
              /\ rep.client # NoClient =>
                    /\ rep.client.variant = "http"
                    /\ rep.client.Addr = rep.addr
                    /\ rep.client.Username = rep.username
                    /\ rep.client.Password = rep.password
        /\ rep.addr \in UDPAddresses =>
              /\ initErr \in {NoErr, ErrConnect}
              /\ rep.client # NoClient =>
                    /\ rep.client.variant = "udp"
                    /\ rep.client.Addr = <<"l",":","9">>
                    /\ rep.client.PayloadSize = 1024
        /\ rep.addr \in OtherSchemeAddresses =>
              /\ initErr = ErrInvalidScheme
              /\ rep.client = NoClient
              /\ calls = <<>>

C7_Witness ==
    /\ rep.addr \in UDPAddresses
    /\ rep.username = "" /\ rep.password = "" /\ rep.database = ""
    /\ initErr = NoErr
    /\ rep.client.variant = "udp"

(* C8: at most one case body of run() is executing at any time, and a case *)
(* body starts only when none is executing.                                *)
C8_OneCaseAtATime ==
    [][/\ Cardinality(active') <= 1
       /\ (active' \ active # {}) => active = {}]_vars

C8_Witness ==
    /\ active = {"flush"}
    /\ pingTick
    /\ intervalTick

----------------------------------------------------------------------------
(* Properties of the one-shot sender (specification SpecSend) *)

(* an optional sign followed by one or more decimal digits *)
IsInteger(s) ==
    /\ s # <<>>
    /\ LET k == IF s[1] \in {"-", "+"} THEN 2 ELSE 1 IN
       /\ k <= Len(s)
       /\ \A i \in k..Len(s) : s[i] \in {"0","1","2","3","4","5","6","7","8","9"}

RECURSIVE Pow10(_)
Pow10(n) == IF n = 0 THEN 1 ELSE 10 * Pow10(n - 1)

RECURSIVE SumOver(_, _)
SumOver(s, i) ==
    IF i > Len(s) THEN 0
    ELSE (CHOOSE d \in 0..9 : ToString(d) = s[i]) * Pow10(Len(s) - i)
         + SumOver(s, i + 1)

(* the integer an IsInteger string denotes *)
IntValue(s) ==
    LET k == IF s[1] \in {"-", "+"} THEN 2 ELSE 1
        abs == SumOver(s, k)
    IN IF s[1] = "-" THEN 0 - abs ELSE abs

FloatGauges(registry) == {n \in DOMAIN registry : registry[n].kind = "GaugeFloat64"}

StartTimeAtCall == IF "start_time" \in DOMAIN tagsAtCall
                   THEN tagsAtCall["start_time"] ELSE <<>>

(* C5: a Send that got past the start_time tag returns "no point to send"  *)
(* without calling Write when the registry holds no FloatGauge, and        *)
(* otherwise calls Write once and returns what Write returned.             *)
C5_EmptyBatchIsAnError ==
    (nSends > 0 /\ IsInteger(StartTimeAtCall)) =>
        IF FloatGauges(item.Reg) = {}
        THEN ret = ErrNoPoint /\ calls = <<>>
        ELSE /\ Len(calls) = 1
             /\ calls[1].op = "Write"
             /\ calls[1].client = sender.client
             /\ ret = calls[1].err

C5_Witness ==
    /\ nSends = 1
    /\ IsInteger(StartTimeAtCall)
    /\ Registered(item.Reg) # {}
    /\ FloatGauges(item.Reg) = {}
    /\ ret = ErrNoPoint
    /\ calls = <<>>

(* C9: a Send entered with a start_time tag that is present and is not an  *)
(* integer returns the Atoi error, calls nothing and leaves item.Tags as   *)
(* it was.                                                                 *)
C9_MalformedStartTime ==
    (/\ nSends > 0
     /\ "start_time" \in DOMAIN tagsAtCall
     /\ ~IsInteger(StartTimeAtCall)) =>
        /\ ret = ErrSyntax
        /\ calls = <<>>
        /\ item.Tags = tagsAtCall

C9_Witness ==
    /\ nSends = 1
    /\ "start_time" \in DOMAIN tagsAtCall
    /\ tagsAtCall["start_time"] = <<"7", "x">>
    /\ FloatGauges(item.Reg) # {}
    /\ ret = ErrSyntax

(* C10: a Send entered with an integer start_time tag on a registry with   *)
(* FloatGauges writes points whose fields are exactly value, the value of  *)
(* a FloatGauge of the registry, and start_time, the integer of the tag,   *)
(* and whose tags are the tags at entry without the start_time key.        *)
C10_StartTimePromoted ==
    (nSends > 0 /\ IsInteger(StartTimeAtCall) /\ FloatGauges(item.Reg) # {}) =>
        /\ Len(calls) = 1
        /\ Len(calls[1].arg) > 0
        /\ \A i \in DOMAIN calls[1].arg :
              LET pt == calls[1].arg[i] IN
              /\ DOMAIN pt.fields = {"value", "start_time"}
              /\ pt.fields["start_time"] = IntValue(StartTimeAtCall)
              /\ \E n \in FloatGauges(item.Reg) :
                    pt.fields["value"] = item.Reg[n].v
              /\ DOMAIN pt.tags = DOMAIN tagsAtCall \ {"start_time"}
              /\ \A k \in DOMAIN pt.tags : pt.tags[k] = tagsAtCall[k]

C10_Witness ==
    /\ nSends = 1
    /\ tagsAtCall = [k \in {"start_time", "host"} |->
                        IF k = "start_time" THEN <<"-", "7", "7">> ELSE <<"a">>]
    /\ Len(calls) = 1
    /\ Len(calls[1].arg) = 2
    /\ calls[1].arg[1].fields["start_time"] = 0 - 77
    /\ DOMAIN calls[1].arg[1].tags = {"host"}

----------------------------------------------------------------------------
(* Properties of the encoding (specifications Spec and SpecSend) *)

(* The mapping table: the measurement suffix and the field names of a kind *)
TableSuffix(kind) ==
    CASE kind = "Counter" -> ".count"
      [] kind = "Gauge" -> ".gauge"
      [] kind = "GaugeFloat64" -> ".gauge"
      [] kind = "Histogram" -> ".histogram"
      [] kind = "Meter" -> ".meter"
      [] kind = "Timer" -> ".timer"

HistogramFields == {"count", "max", "mean", "min", "stddev", "variance",
                    "p50", "p75", "p95", "p99", "p999", "p9999"}

TableFields(kind) ==
    CASE kind \in {"Counter", "Gauge", "GaugeFloat64"} -> {"value"}
      [] kind = "Histogram" -> HistogramFields
      [] kind = "Meter" -> {"count", "m1", "m5", "m15", "mean"}
      [] kind = "Timer" -> HistogramFields \cup {"m1", "m5", "m15", "meanrate"}

TableKinds == {"Counter", "Gauge", "GaugeFloat64", "Histogram", "Meter", "Timer"}

TableEntries(registry) == {n \in DOMAIN registry : registry[n].kind \in TableKinds}

(* the quantile fields of a point are the percentiles of sample v at the   *)
(* cut points 0.5, 0.75, 0.95, 0.99, 0.999, 0.9999, in that order          *)
QuantilesInPlace(fields, v) ==
    /\ fields["p50"] = Percentile(v, 5000)
    /\ fields["p75"] = Percentile(v, 7500)
    /\ fields["p95"] = Percentile(v, 9500)
    /\ fields["p99"] = Percentile(v, 9900)
    /\ fields["p999"] = Percentile(v, 9990)
    /\ fields["p9999"] = Percentile(v, 9999)

(* C11: the batch a flush hands to Write has as many points as the         *)
(* registry has entries of a kind of the mapping table, and for each such  *)
(* entry a point named <name>.<suffix> whose field names are exactly the   *)
(* table's, with value the metric's value for the one-field kinds and the  *)
(* six quantile fields taken in order from the six cut points.             *)
C11_BatchFollowsTable ==
    \A i \in DOMAIN calls : calls[i].op = "Write" =>
        LET bp == calls[i].arg IN
        /\ Len(bp) = Cardinality(TableEntries(reg))
        /\ \A n \in TableEntries(reg) :
              \E j \in DOMAIN bp :
                 /\ bp[j].name = n \o <<TableSuffix(reg[n].kind)>>
                 /\ DOMAIN bp[j].fields = TableFields(reg[n].kind)
                 /\ "value" \in DOMAIN bp[j].fields
                       => bp[j].fields["value"] = reg[n].v
                 /\ "p50" \in DOMAIN bp[j].fields
                       => QuantilesInPlace(bp[j].fields, reg[n].v)

C11_Witness ==
    /\ Len(calls) = 1
    /\ calls[1].op = "Write"
    /\ Len(calls[1].arg) = 2
    /\ {reg[n].kind : n \in Names} = {"Timer", "Counter"}
    /\ \E j \in 1..2 : calls[1].arg[j].name = <<"requests", ".count">>
    /\ \E j \in 1..2 : /\ calls[1].arg[j].name = <<"cpu", ".timer">>
                       /\ calls[1].arg[j].fields["p95"] = 119500

OtherEntries(registry) == Registered(registry) \ TableEntries(registry)

(* C12: a flush over a registry that holds an entry of a kind outside the  *)
(* mapping table still ends with the loop running and one Write made; the  *)
(* batch has no point named after that entry and has the point of every    *)
(* entry of a kind of the table.                                           *)
C12_OtherKindsSkipped ==
    [][("flush" \in active /\ "flush" \notin active' /\ OtherEntries(reg) # {}) =>
          /\ status' = "running"
          /\ Len(calls') = 1
          /\ calls'[1].op = "Write"
          /\ \A j \in DOMAIN calls'[1].arg :
                \A n \in OtherEntries(reg) : calls'[1].arg[j].name[1] # n[1]
          /\ \A n \in TableEntries(reg) :
                \E j \in DOMAIN calls'[1].arg :
                   calls'[1].arg[j].name = n \o <<TableSuffix(reg[n].kind)>>]_vars

C12_Witness ==
    /\ Len(calls) = 1
    /\ calls[1].op = "Write"
    /\ calls[1].err = NoErr
    /\ reg[<<"cpu">>].kind = "Healthcheck"
    /\ reg[<<"requests">>].kind = "Meter"
    /\ Len(calls[1].arg) = 1
    /\ calls[1].arg[1].name = <<"requests", ".meter">>
    /\ status = "running"

(* C13, as stated: a Send entered without a start_time tag does not fail   *)
(* on account of the tag: it does not return the Atoi error, and the       *)
(* points it writes have the value field only.                             *)
C13_AbsentStartTimeIsNoError ==
    (nSends > 0 /\ "start_time" \notin DOMAIN tagsAtCall) =>
        /\ ret # ErrSyntax
        /\ \A i \in DOMAIN calls : \A j \in DOMAIN calls[i].arg :
              DOMAIN calls[i].arg[j].fields = {"value"}

(* C14: the batch a flush hands to Write holds nothing but the points of   *)
(* the entries the registry has at that flush, each at most once, also     *)
(* when the Write of an earlier flush has failed.                          *)
C14_BatchOfThisFlushOnly ==
    \A i \in DOMAIN calls : calls[i].op = "Write" =>
        LET bp == calls[i].arg IN
        /\ \A j \in DOMAIN bp :
              \E n \in TableEntries(reg) :
                 /\ bp[j].name = n \o <<TableSuffix(reg[n].kind)>>
                 /\ bp[j].tags = rep.tags
        /\ \A j, k \in DOMAIN bp : bp[j].name = bp[k].name => j = k

C14_Witness ==
    /\ writeFailed
    /\ Len(calls) = 1
    /\ calls[1].op = "Write"
    /\ calls[1].err = NoErr
    /\ Registered(reg) = {<<"requests">>}
    /\ Len(calls[1].arg) = 1
    /\ calls[1].arg[1].name = <<"requests", ".count">>

(* C15: the batch Reporter.Send hands to Write holds one point for each    *)
(* FloatGauge of the registry and no other point, each named by the        *)
(* measureName argument followed by ".gauge".                              *)
C15_FloatGaugesOnly ==
    \A i \in DOMAIN calls : calls[i].op = "Write" =>
        LET bp == calls[i].arg IN
        /\ Len(bp) = Cardinality(FloatGauges(item.Reg))
        /\ \A j \in DOMAIN bp : bp[j].name = measureName \o <<".gauge">>
        /\ \A n \in FloatGauges(item.Reg) :
              \E j \in DOMAIN bp : bp[j].fields.value = item.Reg[n].v

C15_Witness ==
    /\ nSends = 1
    /\ item.Reg[<<"cpu">>].kind = "GaugeFloat64"
    /\ item.Reg[<<"requests">>].kind = "Gauge"
    /\ Len(calls) = 1
    /\ calls[1].op = "Write"
    /\ Len(calls[1].arg) = 1
    /\ calls[1].arg[1].name = <<"table", ".gauge">>
    /\ calls[1].arg[1].fields.value = Sample(<<"cpu">>)

(* C16: while the goroutine of the looping reporter runs, the reporter     *)
(* holds a client, and no flush or ping meets a nil client.                *)
C16_ClientNeverNil ==
    /\ status = "running" => rep.client # NoClient
    /\ status # "panicked"

(* C17: a Send that got past the start_time tag leaves item.Tags without   *)
(* that tag, whatever Write returned, and the Send after it on the same    *)
(* item returns the Atoi error and calls nothing.                          *)
C17_SecondSendFails ==
    /\ (nSends >= 1 /\ ret # ErrSyntax) => "start_time" \notin DOMAIN item.Tags
    /\ (nSends >= 2 /\ prevRet # ErrSyntax) => (ret = ErrSyntax /\ calls = <<>>)

C17_Witness ==
    /\ nSends = 2
    /\ prevRet = ErrWrite
    /\ ret = ErrSyntax
    /\ calls = <<>>
    /\ "start_time" \notin DOMAIN item.Tags
    /\ "start_time" \notin DOMAIN tagsAtCall

====
